---- MODULE Spec2Model ----
(***************************************************************************)
(* A model of the ERCOT data pull: zone-name canonicalisation              *)
(* (app/locations.py), the append+dedupe merge and the parquet storage     *)
(* (app/storage.py), the sentiment engine (app/sentiment.py), the price    *)
(* and load frame normalisers (app/fetch.py), the collector (collector.py) *)
(* and the read API (app/api.py).                                          *)
(*                                                                         *)
(* Strings that the code inspects character by character (zone names) are  *)
(* sequences of one-character strings.  Timestamps are whole hours since   *)
(* an epoch; a raw time cell is <<hour, minute>>.  Floats are exact        *)
(* rationals <<numerator, denominator>> with a positive denominator, and   *)
(* NaN is the value NaN.                                                   *)
(***************************************************************************)
EXTENDS Integers, Sequences, FiniteSets, TLC

VARIABLES
    \* normalize_location applied to one string
    raw, zoneOut, normPc,
    \* append_and_dedupe applied to a table and a batch, once and twice
    existing, new_rows, combined, again, mergePc,
    \* compute_sentiment applied to a table
    sentDf, sentWindow, sentMinPeriods, sentWeights, sentOut, sentPc,
    \* the parquet file at DATA_PATH, the collector's run of collect_and_update,
    \* the API's last request, the table last persisted whole (empty while the
    \* file never existed), and the zone strings and hours the API's clients ask
    file, collector, reader, persisted, clients,
    \* the run of fetch_dataset: its position, the day of the per-day loop, the
    \* frames normalized so far, the raw frames ERCOT returned, and its outcome
    fetcher

normVars == <<raw, zoneOut, normPc>>
mergeVars == <<existing, new_rows, combined, again, mergePc>>
sentVars == <<sentDf, sentWindow, sentMinPeriods, sentWeights, sentOut, sentPc>>
sysVars == <<file, collector, reader, persisted, clients>>
fetchVars == <<fetcher>>

\* What the actions of one part leave alone
notNorm == <<mergeVars, sentVars, sysVars, fetchVars>>
notMerge == <<normVars, sentVars, sysVars, fetchVars>>
notSent == <<normVars, mergeVars, sysVars, fetchVars>>
notSys == <<normVars, mergeVars, sentVars, fetchVars>>
notFetch == <<normVars, mergeVars, sentVars, sysVars>>

vars == <<normVars, mergeVars, sentVars, sysVars, fetchVars>>

(***************************************************************************)
(* Characters and strings                                                  *)
(***************************************************************************)

\* The characters zone names are written with, in ASCII order.
Chars ==
    <<" ", "-",
      "A", "B", "C", "D", "E", "F", "G", "H", "I", "J", "K", "L", "M",
      "N", "O", "P", "Q", "R", "S", "T", "U", "V", "W", "X", "Y", "Z",
      "_",
      "a", "b", "c", "d", "e", "f", "g", "h", "i", "j", "k", "l", "m",
      "n", "o", "p", "q", "r", "s", "t", "u", "v", "w", "x", "y", "z">>

Ord(c) == CHOOSE i \in 1..Len(Chars) : Chars[i] = c

\* str.upper() on one character
UpperChar(c) == IF Ord(c) \in 30..55 THEN Chars[Ord(c) - 27] ELSE c

\* str.upper()
StrUpper(s) == [i \in 1..Len(s) |-> UpperChar(s[i])]

\* str.replace(old, new) for one-character old and new
StrReplace(s, old, new) == [i \in 1..Len(s) |-> IF s[i] = old THEN new ELSE s[i]]

\* str.strip(): leading and trailing blanks removed
StrStrip(s) ==
    LET nonblank == {i \in 1..Len(s) : s[i] # " "}
    IN  IF nonblank = {} THEN <<>>
        ELSE LET lo == CHOOSE i \in nonblank : \A j \in nonblank : i <= j
                 hi == CHOOSE i \in nonblank : \A j \in nonblank : j <= i
             IN  SubSeq(s, lo, hi)

\* str.startswith(prefix)
StartsWith(s, prefix) ==
    /\ Len(prefix) <= Len(s)
    /\ SubSeq(s, 1, Len(prefix)) = prefix

\* s < t for Python strings: lexicographic by code point
RECURSIVE StrLess(_, _)
StrLess(s, t) ==
    IF t = <<>> THEN FALSE
    ELSE IF s = <<>> THEN TRUE
    ELSE IF Head(s) = Head(t) THEN StrLess(Tail(s), Tail(t))
    ELSE Ord(Head(s)) < Ord(Head(t))

(***************************************************************************)
(* app/locations.py                                                        *)
(***************************************************************************)

NORTH == <<"N", "O", "R", "T", "H">>
SOUTH == <<"S", "O", "U", "T", "H">>
HOUSTON == <<"H", "O", "U", "S", "T", "O", "N">>
WEST == <<"W", "E", "S", "T">>
HB_ == <<"H", "B", "_">>
HB_NORTH == HB_ \o NORTH
HB_SOUTH == HB_ \o SOUTH
HB_HOUSTON == HB_ \o HOUSTON
HB_WEST == HB_ \o WEST

\* Python's None (no zone name is this sequence: its element is no character)
None == <<"None">>

\* The keys of CANONICAL_LOCATIONS (each maps to itself)
CANONICAL_LOCATIONS ==
    {NORTH, SOUTH, HOUSTON, WEST, HB_NORTH, HB_SOUTH, HB_HOUSTON, HB_WEST}

LoadZones == <<NORTH, SOUTH, HOUSTON, WEST>>
Hubs == <<HB_NORTH, HB_SOUTH, HB_HOUSTON, HB_WEST>>

SP_ZONE == <<" ", "Z", "O", "N", "E">>
SP_HUB == <<" ", "H", "U", "B">>
LZ_ == <<"L", "Z", "_">>
HB_SP == <<"H", "B", " ">>
U_HUB == <<"_", "H", "U", "B">>

\* LOCATION_ALIASES as the pairs <<key, value>> of the dict literal, in order
LOCATION_ALIASES ==
    [i \in 1..4 |-> <<LoadZones[i] \o SP_ZONE, LoadZones[i]>>]
    \o [i \in 1..4 |-> <<LZ_ \o LoadZones[i], LoadZones[i]>>]
    \o [i \in 1..4 |-> <<HB_SP \o LoadZones[i], Hubs[i]>>]
    \o [i \in 1..4 |-> <<Hubs[i] \o U_HUB, Hubs[i]>>]
    \o [i \in 1..4 |-> <<LoadZones[i] \o SP_HUB, Hubs[i]>>]

AliasKeys == {LOCATION_ALIASES[i][1] : i \in 1..Len(LOCATION_ALIASES)}

\* LOCATION_ALIASES[key]
AliasValue(key) ==
    LOCATION_ALIASES[CHOOSE i \in 1..Len(LOCATION_ALIASES) : LOCATION_ALIASES[i][1] = key][2]

\* The prefixes normalize_location strips, in the order it tries them
PREFIXES ==
    << LZ_,
       <<"H", "Z", "_">>,
       <<"H", "Z", "O", "N", "_">>,
       <<"L", "O", "A", "D", "_", "Z", "O", "N", "E", "_">>,
       HB_ >>

\* The loop over the prefixes, from prefix number i on
RECURSIVE StripPrefixFrom(_, _)
StripPrefixFrom(value, i) ==
    IF i > Len(PREFIXES) THEN None
    ELSE IF StartsWith(value, PREFIXES[i])
         THEN LET candidate == SubSeq(value, Len(PREFIXES[i]) + 1, Len(value))
              IN  IF candidate \in CANONICAL_LOCATIONS THEN candidate
                  ELSE IF candidate \in AliasKeys THEN AliasValue(candidate)
                  ELSE StripPrefixFrom(value, i + 1)
         ELSE StripPrefixFrom(value, i + 1)

\* value after strip, upper and the two replacements
CleanLocation(r) == StrReplace(StrReplace(StrUpper(StrStrip(r)), "-", "_"), " ", "_")

normalize_location(r) ==
    IF r = None THEN None
    ELSE LET value == CleanLocation(r)
         IN  IF value \in CANONICAL_LOCATIONS THEN value
             ELSE IF value \in AliasKeys THEN AliasValue(value)
             ELSE StripPrefixFrom(value, 1)


(***************************************************************************)
(* normalize_location as a pure function: the inputs it is applied to      *)
(***************************************************************************)

LowerChar(c) == IF Ord(c) \in 3..28 THEN Chars[Ord(c) + 27] ELSE c
StrLower(s) == [i \in 1..Len(s) |-> LowerChar(s[i])]
\* "North Hub" from "NORTH HUB": each word capitalised
StrTitle(s) ==
    [i \in 1..Len(s) |-> IF i = 1 \/ s[i - 1] \in {" ", "_", "-"} THEN s[i] ELSE LowerChar(s[i])]

UNKNOWN_ZONE == <<"u", "n", "k", "n", "o", "w", "n", " ", "z", "o", "n", "e">>

\* Strings unrelated to every canonical identifier, alias key and prefix
UnrelatedStrings ==
    { UNKNOWN_ZONE,
      <<>>,
      <<" ">>,
      <<"E", "A", "S", "T">>,
      <<"N", "O", "R", "T", "H", "E", "R", "N">>,
      <<"L", "Z", "_">>,
      <<"P", "A", "N", "H", "A", "N", "D", "L", "E">> }

KnownNames == CANONICAL_LOCATIONS \cup AliasKeys

PrefixedNames == {PREFIXES[i] \o x : i \in 1..Len(PREFIXES), x \in KnownNames}

\* Other spellings of the known names: lower case, capitalised words,
\* surrounding blanks, hyphens for underscores
SpellingVariants ==
    {StrLower(x) : x \in KnownNames}
    \cup {StrTitle(x) : x \in KnownNames}
    \cup {<<" ">> \o x \o <<" ", " ">> : x \in CANONICAL_LOCATIONS}
    \cup {StrReplace(x, "_", "-") : x \in KnownNames}

NormInputs == KnownNames \cup PrefixedNames \cup SpellingVariants \cup UnrelatedStrings

StartNorm ==
    /\ raw \in NormInputs
    /\ zoneOut = None
    /\ normPc = "ready"

IdleNorm ==
    /\ raw = <<>>
    /\ zoneOut = None
    /\ normPc = "idle"

\* One call of normalize_location(raw)
Normalize ==
    /\ normPc = "ready"
    /\ zoneOut' = normalize_location(raw)
    /\ normPc' = "done"
    /\ UNCHANGED <<raw, notNorm>>

(***************************************************************************)
(* Tables: sequences of rows; a row is a record with at least the fields   *)
(* zone and timestamp                                                      *)
(***************************************************************************)

SameKey(a, b) == a.timestamp = b.timestamp /\ a.zone = b.zone

\* a sorts before b under sort_values(["zone", "timestamp"])
RowLess(a, b) ==
    IF a.zone = b.zone THEN a.timestamp < b.timestamp ELSE StrLess(a.zone, b.zone)

\* The rows of t at the positions in keep, in t's order
SelectRows(t, keep) ==
    [k \in 1..Cardinality(keep) |->
        t[CHOOSE i \in keep : Cardinality({j \in keep : j <= i}) = k]]

\* drop_duplicates(subset=["timestamp", "zone"], keep="first")
DropDuplicatesFirst(t) ==
    SelectRows(t, {i \in 1..Len(t) : \A j \in 1..(i - 1) : ~SameKey(t[i], t[j])})

\* No rows dropped
DropDuplicatesNone(t) == t

\* drop_duplicates(subset=["timestamp", "zone"], keep="last")
DropDuplicatesLast(t) ==
    SelectRows(t, {i \in 1..Len(t) : \A j \in (i + 1)..Len(t) : ~SameKey(t[i], t[j])})

\* The place of row i of t in the sorted table: after the rows that sort
\* before it and the earlier rows of its own key (a stable sort)
SortedPlace(t, i) ==
    1 + Cardinality({j \in 1..Len(t) :
            RowLess(t[j], t[i]) \/ (~RowLess(t[i], t[j]) /\ j < i)})

\* The table left in the order it has
SortValuesNone(t) == t

\* sort_values(["zone", "timestamp"]).reset_index(drop=True): a stable sort
SortValues(t) ==
    LET placed == {<<SortedPlace(t, i), i>> : i \in 1..Len(t)}
    IN  [k \in 1..Len(t) |-> t[(CHOOSE p \in placed : p[1] = k)[2]]]

\* df.empty
Empty(t) == Len(t) = 0

(***************************************************************************)
(* Numbers: a float is the exact rational <<n, d>> in lowest terms with    *)
(* d > 0; NaN is <<0, 0>>, +inf is <<1, 0>> and -inf is <<-1, 0>>          *)
(***************************************************************************)

NaN == <<0, 0>>
PosInf == <<1, 0>>
NegInf == <<-1, 0>>

Abs(n) == IF n < 0 THEN -n ELSE n
Sign(n) == IF n < 0 THEN -1 ELSE IF n > 0 THEN 1 ELSE 0

RECURSIVE GCD(_, _)
GCD(a, b) == IF b = 0 THEN a ELSE GCD(b, a % b)

\* n / d as a float
Rat(n, d) ==
    IF d = 0 THEN <<Sign(n), 0>>
    ELSE LET g == GCD(Abs(n), Abs(d))
         IN  <<Sign(d) * (n \div g), Abs(d) \div g>>

Num(n) == <<n, 1>>
IsNaN(x) == x = NaN
IsInf(x) == x = PosInf \/ x = NegInf
IsFinite(x) == x[2] # 0

RNeg(a) == <<-a[1], a[2]>>

RAdd(a, b) ==
    IF IsNaN(a) \/ IsNaN(b) THEN NaN
    ELSE IF IsInf(a) THEN (IF IsInf(b) /\ a # b THEN NaN ELSE a)
    ELSE IF IsInf(b) THEN b
    ELSE Rat(a[1] * b[2] + b[1] * a[2], a[2] * b[2])

RSub(a, b) == RAdd(a, RNeg(b))

RMul(a, b) ==
    IF IsNaN(a) \/ IsNaN(b) THEN NaN
    ELSE IF IsInf(a) \/ IsInf(b)
         THEN <<Sign(a[1]) * Sign(b[1]), 0>>
    ELSE Rat(a[1] * b[1], a[2] * b[2])

\* a / b as numpy divides floats: x / 0 is +-inf, 0 / 0 is NaN
RDiv(a, b) ==
    IF IsNaN(a) \/ IsNaN(b) THEN NaN
    ELSE IF IsInf(b) THEN (IF IsInf(a) THEN NaN ELSE Num(0))
    ELSE IF IsInf(a) THEN <<Sign(a[1]) * (IF b[1] < 0 THEN -1 ELSE 1), 0>>
    ELSE Rat(a[1] * b[2], a[2] * b[1])

\* a < b; false when either is NaN
RLess(a, b) ==
    IF IsNaN(a) \/ IsNaN(b) THEN FALSE
    ELSE IF IsInf(a) /\ IsInf(b) THEN a = NegInf /\ b = PosInf
    ELSE a[1] * b[2] < b[1] * a[2]

RLeq(a, b) == ~IsNaN(a) /\ ~IsNaN(b) /\ (a = b \/ RLess(a, b))

RAbs(a) == <<Abs(a[1]), a[2]>>

\* Series.clip(lower, upper): NaN stays NaN
Clip(x, lower, upper) ==
    IF IsNaN(x) THEN NaN
    ELSE IF RLess(x, lower) THEN lower
    ELSE IF RLess(upper, x) THEN upper
    ELSE x

\* Series.fillna(value)
FillNa(x, value) == IF IsNaN(x) THEN value ELSE x

\* The k-th smallest of a sequence of numbers without NaN
KthSmallest(values, k) ==
    LET n == Len(values)
        x == CHOOSE i \in 1..n :
                /\ Cardinality({j \in 1..n : RLess(values[j], values[i])}) < k
                /\ k <= Cardinality({j \in 1..n : RLeq(values[j], values[i])})
    IN  values[x]

\* The median of a non-empty sequence of numbers without NaN
MedianOf(values) ==
    LET n == Len(values)
    IN  IF n % 2 = 1 THEN KthSmallest(values, (n + 1) \div 2)
        ELSE RDiv(RAdd(KthSmallest(values, n \div 2), KthSmallest(values, n \div 2 + 1)), Num(2))

HasNaN(values) == \E i \in 1..Len(values) : IsNaN(values[i])

\* np.median: NaN when a value is NaN
NpMedian(values) == IF HasNaN(values) \/ Len(values) = 0 THEN NaN ELSE MedianOf(values)

\* The sum of a sequence of numbers, by halves
RECURSIVE SumOf(_)
SumOf(values) ==
    LET n == Len(values)
    IN  IF n = 0 THEN Num(0)
        ELSE IF n = 1 THEN values[1]
        ELSE RAdd(SumOf(SubSeq(values, 1, n \div 2)), SumOf(SubSeq(values, n \div 2 + 1, n)))

Observed(values) == SelectSeq(values, LAMBDA x : IsFinite(x))

(***************************************************************************)
(* app/sentiment.py                                                        *)
(***************************************************************************)

GREEN == 70
YELLOW == 40
DEFAULT_WINDOW_HOURS == 168
DEFAULT_MIN_PERIODS == 24

\* SentimentWeights(): price 0.6, load 0.4
DefaultWeights == [price |-> Rat(6, 10), load |-> Rat(4, 10)]

\* SentimentWeights.normalize
NormalizeWeights(w) ==
    LET total == RAdd(w.price, w.load)
    IN  IF total = Num(0) THEN DefaultWeights
        ELSE [price |-> RDiv(w.price, total), load |-> RDiv(w.load, total)]

\* The trailing window of `window` values of series that ends at position i
Window(series, i, window) == SubSeq(series, IF i - window + 1 < 1 THEN 1 ELSE i - window + 1, i)

\* _rolling_median at position i: the median of the window's observations,
\* NaN when they are fewer than min_periods
RollingMedian(series, i, window, min_periods) ==
    LET obs == Observed(Window(series, i, window))
    IN  IF Len(obs) >= min_periods /\ Len(obs) > 0 THEN MedianOf(obs) ELSE NaN

\* mad(values) of _rolling_mad, on the raw window
Mad(values) ==
    LET median == NpMedian(values)
    IN  NpMedian([j \in 1..Len(values) |-> RAbs(RSub(values[j], median))])

\* _rolling_mad at position i: rolling(...).apply(mad, raw=True) calls mad on
\* the whole window when it has at least min_periods observations
RollingMad(series, i, window, min_periods) ==
    LET win == Window(series, i, window)
    IN  IF Len(Observed(win)) >= min_periods THEN Mad(win) ELSE NaN

\* _rolling_mean at position i
RollingMean(series, i, window, min_periods) ==
    LET obs == Observed(Window(series, i, window))
    IN  IF Len(obs) >= min_periods /\ Len(obs) > 0 THEN RDiv(SumOf(obs), Num(Len(obs))) ELSE NaN

\* _robust_z_score for one row, without the zero-MAD guard
RobustZUnguarded(value, baseline, mad) ==
    FillNa(RDiv(RMul(Rat(6745, 10000), RSub(value, baseline)), mad), Num(0))

\* _robust_z_score for one row
RobustZScore(value, baseline, mad) ==
    LET mad_safe == IF mad = Num(0) THEN NaN ELSE mad
    IN  FillNa(RDiv(RMul(Rat(6745, 10000), RSub(value, baseline)), mad_safe), Num(0))

\* _convert_z_to_score
ConvertZToScore(z) ==
    LET clipped == Clip(z, Num(-2), Num(2))
        score == RMul(RSub(Num(1), RDiv(RAdd(clipped, Num(2)), Num(4))), Num(100))
    IN  Clip(score, Num(0), Num(100))

\* _convert_pct_to_score
ConvertPctToScore(pct) ==
    LET clipped == Clip(pct, Rat(-2, 10), Rat(2, 10))
        score == RMul(RSub(Num(1), RDiv(RAdd(clipped, Rat(2, 10)), Rat(4, 10))), Num(100))
    IN  Clip(score, Num(0), Num(100))

\* _sentiment_bucket
SentimentBucket(value) ==
    IF RLeq(Num(GREEN), value) THEN "green"
    ELSE IF RLeq(Num(YELLOW), value) THEN "yellow"
    ELSE "red"

\* The weighted sum without the final clip
CombineUnclipped(price_score, load_score, w) ==
    RAdd(RMul(price_score, w.price), RMul(load_score, w.load))

\* sentiment of one row: the weighted sum, clipped to [0, 100]
Combine(price_score, load_score, w) ==
    Clip(RAdd(RMul(price_score, w.price), RMul(load_score, w.load)), Num(0), Num(100))

\* The positions of the rows of df's zone group that row i is in, up to i
GroupUpTo(df, i) == SelectSeq([j \in 1..i |-> j], LAMBDA j : df[j].zone = df[i].zone)

\* The enriched row i of the sorted table df
EnrichRow(df, i, window_hours, min_periods, w) ==
    LET idx == GroupUpTo(df, i)
        n == Len(idx)
        prices == [k \in 1..n |-> df[idx[k]].price]
        loads == [k \in 1..n |-> df[idx[k]].system_load]
        price_baseline == RollingMedian(prices, n, window_hours, min_periods)
        price_mad == RollingMad(prices, n, window_hours, min_periods)
        price_z == RobustZScore(df[i].price, price_baseline, price_mad)
        price_score == ConvertZToScore(price_z)
        load_mean == RollingMean(loads, n, window_hours, min_periods)
        load_baseline == IF load_mean = Num(0) THEN NaN ELSE load_mean
        ratio == RDiv(RSub(df[i].system_load, load_baseline), load_baseline)
        load_pct_dev == FillNa(IF IsInf(ratio) THEN NaN ELSE ratio, Num(0))
        load_score == ConvertPctToScore(load_pct_dev)
        sentiment == Combine(price_score, load_score, w)
    IN  [zone |-> df[i].zone, timestamp |-> df[i].timestamp,
         price |-> df[i].price, system_load |-> df[i].system_load,
         price_baseline |-> price_baseline, price_mad |-> price_mad,
         price_z |-> price_z, price_score |-> price_score,
         load_baseline |-> load_baseline, load_pct_dev |-> load_pct_dev,
         load_score |-> load_score, sentiment |-> sentiment,
         sentiment_bucket |-> SentimentBucket(sentiment)]

\* compute_sentiment(df, window_hours, min_periods, weights); weights is <<>>
\* for None and <<w>> otherwise.  rolling(window, min_periods) raises
\* ValueError when min_periods > window, for a table with a row.
compute_sentiment(df, window_hours, min_periods, weights) ==
    IF Empty(df) THEN [error |-> "none", df |-> <<>>]
    ELSE IF min_periods > window_hours THEN [error |-> "ValueError", df |-> <<>>]
    ELSE LET w == IF weights = <<>> THEN NormalizeWeights(DefaultWeights)
                  ELSE NormalizeWeights(weights[1])
             sorted == SortValues(df)
         IN  [error |-> "none",
              df |-> [i \in 1..Len(sorted) |->
                        EnrichRow(sorted, i, window_hours, min_periods, w)]]

(***************************************************************************)
(* app/storage.py: append_and_dedupe                                       *)
(***************************************************************************)

\* pd.concat([a, b], ignore_index=True): the columns are the union of both
\* tables' columns, and a row has NaN in a column its table lacks
Concat(a, b) ==
    LET both == a \o b
        columns == UNION {DOMAIN both[i] : i \in 1..Len(both)}
    IN  [i \in 1..Len(both) |->
            [c \in columns |-> IF c \in DOMAIN both[i] THEN both[i][c] ELSE NaN]]

append_and_dedupe(ex, new) ==
    LET concat == IF Empty(ex) THEN new ELSE Concat(ex, new)
    IN  SortValues(DropDuplicatesLast(concat))

(***************************************************************************)
(* append_and_dedupe as a pure function: the tables and batches            *)
(***************************************************************************)

MaxTs == 2
MaxBatch == 2

MergeZones == {HOUSTON, NORTH}
\* The prices of the rows of a batch, and those of the rows persisted before
MergePrices == {20, 30}
ExistingPrices == {20}
MergeRows == [zone : MergeZones, timestamp : 1..MaxTs, price : MergePrices]
ExistingRows == [zone : MergeZones, timestamp : 1..MaxTs, price : ExistingPrices]
MergeKeys == MergeZones \X (1..MaxTs)

\* The rows of a set with distinct keys, as the sorted table
SetToTable(S) ==
    [k \in 1..Cardinality(S) |->
        CHOOSE r \in S : Cardinality({q \in S : RowLess(q, r)}) = k - 1]

\* The tables load_dataset can return: sorted, one row a key
MergeTables ==
    {SetToTable(S) : S \in {S \in SUBSET ExistingRows :
        \A a, b \in S : SameKey(a, b) => a = b}}

RECURSIVE SeqsUpTo(_, _)
\* The sequences over S of length at most n
SeqsUpTo(S, n) ==
    IF n = 0 THEN {<<>>}
    ELSE LET shorter == SeqsUpTo(S, n - 1)
         IN  shorter \cup {Append(q, x) : q \in shorter, x \in S}

\* The batches: any rows in any order, keys repeated or not
MergeBatches == SeqsUpTo(MergeRows, MaxBatch)

IdleMerge ==
    /\ existing = <<>>
    /\ new_rows = <<>>
    /\ combined = <<>>
    /\ again = <<>>
    /\ mergePc = "idle"

StartMerge ==
    /\ existing \in MergeTables
    /\ new_rows \in MergeBatches
    /\ combined = <<>>
    /\ again = <<>>
    /\ mergePc = "ready"

\* combined = append_and_dedupe(existing, new_rows)
MergeOnce ==
    /\ mergePc = "ready"
    /\ combined' = append_and_dedupe(existing, new_rows)
    /\ mergePc' = "once"
    /\ UNCHANGED <<existing, new_rows, again, notMerge>>

\* again = append_and_dedupe(combined, new_rows)
MergeTwice ==
    /\ mergePc = "once"
    /\ again' = append_and_dedupe(combined, new_rows)
    /\ mergePc' = "twice"
    /\ UNCHANGED <<existing, new_rows, combined, notMerge>>

(***************************************************************************)
(* compute_sentiment as a pure function: the tables and parameters         *)
(***************************************************************************)

MaxSeries == 3
MaxWindow == 3

\* <<price, system_load>> of a row; either may be missing
SentObservations ==
    { <<Num(20), Num(100)>>, <<Num(30), Num(100)>>, <<Num(20), Num(130)>>,
      <<NaN, Num(100)>>, <<Num(30), NaN>> }

\* The rows of one zone at the hours 1, 2, ... with the observations obs
ZoneSeries(zone, obs) ==
    [i \in 1..Len(obs) |->
        [zone |-> zone, timestamp |-> i, price |-> obs[i][1], system_load |-> obs[i][2]]]

\* Sorted tables: no or one row of HOUSTON, then up to MaxSeries rows of NORTH
SentTables ==
    { ZoneSeries(HOUSTON, h) \o ZoneSeries(NORTH, n) :
        h \in {<<>>, << <<Num(30), Num(0)>> >>},
        n \in SeqsUpTo(SentObservations, MaxSeries) }

\* weights: None, both zero, a negative weight, unequal weights
SentWeightChoices ==
    { <<>>,
      <<[price |-> Num(0), load |-> Num(0)]>>,
      <<[price |-> Num(3), load |-> Num(-2)]>>,
      <<[price |-> Num(1), load |-> Num(3)]>> }

\* Thirty hourly prices of 20, then one of 30
ScenarioC ==
    ZoneSeries(NORTH, [i \in 1..31 |-> <<IF i <= 30 THEN Num(20) ELSE Num(30), Num(100)>>])

StartSent ==
    /\ \/ /\ sentDf \in SentTables
          /\ sentWindow \in 1..MaxWindow
          /\ sentMinPeriods \in 1..MaxWindow
          /\ sentWeights \in SentWeightChoices
       \/ /\ sentDf = ScenarioC
          /\ sentWindow = 24
          /\ sentMinPeriods = 24
          /\ sentWeights = <<>>
    /\ sentOut = [error |-> "none", df |-> <<>>]
    /\ sentPc = "ready"

IdleSent ==
    /\ sentDf = <<>>
    /\ sentWindow = DEFAULT_WINDOW_HOURS
    /\ sentMinPeriods = DEFAULT_MIN_PERIODS
    /\ sentWeights = <<>>
    /\ sentOut = [error |-> "none", df |-> <<>>]
    /\ sentPc = "idle"

\* sentOut = compute_sentiment(sentDf, sentWindow, sentMinPeriods, sentWeights)
ComputeSentiment ==
    /\ sentPc = "ready"
    /\ sentOut' = compute_sentiment(sentDf, sentWindow, sentMinPeriods, sentWeights)
    /\ sentPc' = "done"
    /\ UNCHANGED <<sentDf, sentWindow, sentMinPeriods, sentWeights, notSent>>

(***************************************************************************)
(* app/storage.py: the parquet file                                        *)
(***************************************************************************)

\* The file is absent, complete (header, row groups and footer) or being
\* written: to_parquet opens DATA_PATH itself for writing, which truncates it,
\* writes the row groups and writes the footer when it closes the file.
AbsentFile == [state |-> "absent", rows |-> <<>>]

\* load_dataset: an empty table for a missing file; read_parquet raises on a
\* file without its footer
load_dataset(f) ==
    IF f.state = "absent" THEN [error |-> "none", df |-> <<>>]
    ELSE IF f.state = "complete" THEN [error |-> "none", df |-> SortValues(f.rows)]
    ELSE [error |-> "ArrowInvalid", df |-> <<>>]

(***************************************************************************)
(* collector.py: collect_and_update, one step a file access or computation *)
(***************************************************************************)

SysMaxTs == 2

SysZones == {HOUSTON, NORTH}

\* What fetch_dataset can return: a sorted table with one row a key
FreshRow(z, t) == [zone |-> z, timestamp |-> t, price |-> Num(20 + t), system_load |-> Num(100)]
FreshBatches ==
    {SetToTable({FreshRow(k[1], k[2]) : k \in K}) : K \in SUBSET (SysZones \X (1..SysMaxTs))}

IdleCollector ==
    [pc |-> "idle", fresh |-> <<>>, existing |-> <<>>, combined |-> <<>>,
     enriched |-> <<>>, returned |-> <<>>]

\* fresh = fetch_dataset(config)
CollectFetch ==
    /\ collector.pc = "idle"
    /\ \E fresh \in FreshBatches :
         collector' = [IdleCollector EXCEPT !.pc = "fetched", !.fresh = fresh]
    /\ UNCHANGED <<file, reader, persisted, clients, notSys>>

\* A fetch of no rows treated as any other: on to load, merge and save
CollectNothingMerging ==
    /\ collector.pc = "fetched"
    /\ Empty(collector.fresh)
    /\ collector' = [collector EXCEPT !.pc = "loaded", !.existing = load_dataset(file).df]
    /\ UNCHANGED <<file, reader, persisted, clients, notSys>>

\* if fresh.empty: return load_dataset(output_path)
CollectNothing ==
    /\ collector.pc = "fetched"
    /\ Empty(collector.fresh)
    /\ collector' = [collector EXCEPT !.pc = "idle", !.returned = load_dataset(file).df]
    /\ UNCHANGED <<file, reader, persisted, clients, notSys>>

\* existing = load_dataset(output_path)
CollectLoad ==
    /\ collector.pc = "fetched"
    /\ ~Empty(collector.fresh)
    /\ collector' = [collector EXCEPT !.pc = "loaded", !.existing = load_dataset(file).df]
    /\ UNCHANGED <<file, reader, persisted, clients, notSys>>

\* combined = append_and_dedupe(existing, fresh)
CollectMerge ==
    /\ collector.pc = "loaded"
    /\ collector' = [collector EXCEPT !.pc = "merged",
                        !.combined = append_and_dedupe(collector.existing, collector.fresh)]
    /\ UNCHANGED <<file, reader, persisted, clients, notSys>>

\* enriched = compute_sentiment(combined)
CollectEnrich ==
    /\ collector.pc = "merged"
    /\ collector' = [collector EXCEPT !.pc = "enriched",
                        !.enriched = compute_sentiment(collector.combined,
                            DEFAULT_WINDOW_HOURS, DEFAULT_MIN_PERIODS, <<>>).df]
    /\ UNCHANGED <<file, reader, persisted, clients, notSys>>

\* save_dataset: to_parquet opens the file for writing
SaveOpen ==
    /\ collector.pc = "enriched"
    /\ file' = [state |-> "writing", rows |-> <<>>]
    /\ collector' = [collector EXCEPT !.pc = "opened"]
    /\ UNCHANGED <<reader, persisted, clients, notSys>>

\* save_dataset: the row group is written
SaveWrite ==
    /\ collector.pc = "opened"
    /\ file' = [state |-> "writing", rows |-> collector.enriched]
    /\ collector' = [collector EXCEPT !.pc = "written"]
    /\ UNCHANGED <<reader, persisted, clients, notSys>>

\* save_dataset: the footer is written and the file closed; return enriched
SaveClose ==
    /\ collector.pc = "written"
    /\ file' = [state |-> "complete", rows |-> collector.enriched]
    /\ collector' = [collector EXCEPT !.pc = "idle", !.returned = collector.enriched]
    /\ persisted' = collector.enriched
    /\ UNCHANGED <<reader, clients, notSys>>

(***************************************************************************)
(* app/api.py                                                              *)
(***************************************************************************)

MaxHours == 3

\* MarketRow.from_series
MarketRow(row) ==
    [timestamp |-> row.timestamp, zone |-> row.zone, price |-> row.price,
     system_load |-> row.system_load, sentiment |-> row.sentiment,
     sentiment_bucket |-> row.sentiment_bucket]

\* sort_values("timestamp"): rows of one timestamp keep their order
SortByTimestamp(t) ==
    LET placed == {<<1 + Cardinality({j \in 1..Len(t) :
                            \/ t[j].timestamp < t[i].timestamp
                            \/ t[j].timestamp = t[i].timestamp /\ j < i}), i>> :
                      i \in 1..Len(t)}
    IN  [k \in 1..Len(t) |-> t[(CHOOSE p \in placed : p[1] = k)[2]]]

\* _filter_zone: the zone's rows by timestamp, or HTTPException(404)
FilterZone(df, zone) ==
    LET canonical == normalize_location(zone)
        zone_df == SelectSeq(df, LAMBDA row : row.zone = canonical)
    IN  IF canonical = None \/ canonical \notin CANONICAL_LOCATIONS
        THEN [status |-> 404, detail |-> "Unknown zone", df |-> <<>>]
        ELSE IF Empty(zone_df)
        THEN [status |-> 404, detail |-> "No data for zone", df |-> <<>>]
        ELSE [status |-> 200, detail |-> "", df |-> SortByTimestamp(zone_df)]

MaxTimestamp(df) == CHOOSE t \in {df[i].timestamp : i \in 1..Len(df)} :
                        \A i \in 1..Len(df) : df[i].timestamp <= t

\* history's cutoff with Timedelta(hours=hours)
CutoffWide(latest_timestamp, hours) == latest_timestamp - hours

\* cutoff = latest_timestamp - pd.Timedelta(hours=hours - 1)
Cutoff(latest_timestamp, hours) == latest_timestamp - (hours - 1)

\* zone_df.iloc[0]
FirstRow(zone_df) == zone_df[1]

\* zone_df.iloc[-1]
LastRow(zone_df) == zone_df[Len(zone_df)]

\* latest(zone) on what load_dataset gave: the response
latest(loaded, zone) ==
    IF loaded.error # "none" THEN [status |-> 500, detail |-> loaded.error, rows |-> <<>>]
    ELSE IF Empty(loaded.df) THEN [status |-> 404, detail |-> "Dataset is empty", rows |-> <<>>]
    ELSE LET filtered == FilterZone(loaded.df, zone)
         IN  IF filtered.status # 200
             THEN [status |-> filtered.status, detail |-> filtered.detail, rows |-> <<>>]
             ELSE [status |-> 200, detail |-> "", rows |-> <<MarketRow(LastRow(filtered.df))>>]

\* history(zone, hours) on what load_dataset gave: the response
history(loaded, zone, hours) ==
    IF loaded.error # "none" THEN [status |-> 500, detail |-> loaded.error, rows |-> <<>>]
    ELSE IF Empty(loaded.df) THEN [status |-> 404, detail |-> "Dataset is empty", rows |-> <<>>]
    ELSE LET filtered == FilterZone(loaded.df, zone)
         IN  IF filtered.status # 200
             THEN [status |-> filtered.status, detail |-> filtered.detail, rows |-> <<>>]
             ELSE LET cutoff == Cutoff(MaxTimestamp(filtered.df), hours)
                      recent == SelectSeq(filtered.df, LAMBDA row : row.timestamp >= cutoff)
                  IN  [status |-> 200, detail |-> "",
                       rows |-> [i \in 1..Len(recent) |-> MarketRow(recent[i])]]

IdleReader ==
    [op |-> "idle", zone |-> <<>>, hours |-> 0,
     loaded |-> [error |-> "none", df |-> <<>>],
     before |-> <<>>, after |-> <<>>,
     response |-> [status |-> 0, detail |-> "", rows |-> <<>>]]

\* The table a save under way is writing; the persisted one when none is
BeingSaved == IF collector.pc \in {"opened", "written"} THEN collector.enriched ELSE persisted

\* The zone strings of the requests
ApiZoneInputs ==
    { NORTH, StrLower(NORTH), LZ_ \o NORTH, HB_NORTH, StrTitle(NORTH \o SP_HUB),
      HOUSTON, SOUTH, UNKNOWN_ZONE }

\* GET /latest?zone=...
ReadLatest ==
    /\ \E zone \in clients.zones :
         LET loaded == load_dataset(file)
         IN  reader' = [op |-> "latest", zone |-> zone, hours |-> 0, loaded |-> loaded,
                        before |-> persisted, after |-> BeingSaved,
                        response |-> latest(loaded, zone)]
    /\ UNCHANGED <<file, collector, persisted, clients, notSys>>

\* GET /history?zone=...&hours=...; FastAPI admits 0 < hours <= 24 * 14
ReadHistory ==
    /\ \E zone \in clients.zones : \E hours \in clients.hours :
         LET loaded == load_dataset(file)
         IN  reader' = [op |-> "history", zone |-> zone, hours |-> hours, loaded |-> loaded,
                        before |-> persisted, after |-> BeingSaved,
                        response |-> history(loaded, zone, hours)]
    /\ UNCHANGED <<file, collector, persisted, clients, notSys>>

\* The collector and the API at rest on a dataset that was never written
StartSys ==
    /\ file = AbsentFile
    /\ collector = IdleCollector
    /\ reader = IdleReader
    /\ persisted = <<>>
    /\ clients = [zones |-> {NORTH, UNKNOWN_ZONE}, hours |-> {1}]

IdleSys == StartSys

(***************************************************************************)
(* The API on a persisted dataset                                          *)
(***************************************************************************)

MaxApiTs == 4

\* The table collect_and_update persists for a first batch
Persisted(batch) ==
    compute_sentiment(append_and_dedupe(<<>>, batch),
                      DEFAULT_WINDOW_HOURS, DEFAULT_MIN_PERIODS, <<>>).df

\* Batches with rows of NORTH at any hours up to MaxApiTs, gaps included, and
\* rows of HB_NORTH and HOUSTON
ApiBatches ==
    { SetToTable({FreshRow(NORTH, t) : t \in N}
                 \cup {FreshRow(HB_NORTH, t) : t \in H}
                 \cup {FreshRow(HOUSTON, t) : t \in U}) :
        N \in SUBSET (1..MaxApiTs), H \in {{}, {2}, {1, 3}}, U \in {{}, {MaxApiTs + 1}} }

\* NORTH at 48 consecutive hours, and HOUSTON
ScenarioD ==
    SetToTable({FreshRow(NORTH, t) : t \in 1..48} \cup {FreshRow(HOUSTON, t) : t \in 47..50})

StartApi ==
    /\ \/ file = AbsentFile
       \/ \E batch \in (ApiBatches \ {<<>>}) \cup {ScenarioD} :
            file = [state |-> "complete", rows |-> Persisted(batch)]
    /\ collector = IdleCollector
    /\ reader = IdleReader
    /\ persisted = load_dataset(file).df
    /\ clients = [zones |-> ApiZoneInputs, hours |-> (1..MaxHours) \cup {24}]

(***************************************************************************)
(* app/fetch.py: raw frames, their normalization, fetch_dataset            *)
(***************************************************************************)

TIME_COLUMN_CANDIDATES ==
    << "timestamp", "time", "datetime", "Delivery Interval", "Delivery Interval Ending",
       "Interval Ending", "Oper Interval", "Settlement Point Price Date",
       "Settlement Point Price Timestamp" >>

LOCATION_COLUMN_CANDIDATES ==
    << "location", "Location", "Settlement Point", "settlement_point", "Load Zone",
       "SettlementPoint" >>

PRICE_COLUMN_CANDIDATES ==
    << "lmp", "price", "Price", "Settlement Point Price", "Settlement Point Price ($/MWH)",
       "SettlementPointPrice" >>

LOAD_COLUMN_CANDIDATES ==
    << "System Load", "Actual System Load", "Actual Load", "Load", "Actual Load (MW)",
       "actual_load" >>

\* Python's None where a column name is expected, as the message prints it
NoColumn == "None"

\* _detect_column(frame, candidates): the first candidate that is a column of
\* the frame.  A frame is its set of column names and its rows, each a
\* function from the column names to cells.
detect_column(frame, candidates) ==
    LET found == {i \in 1..Len(candidates) : candidates[i] \in frame.columns}
    IN  IF found = {} THEN NoColumn
        ELSE candidates[CHOOSE i \in found : \A j \in found : i <= j]

\* A time cell is <<hour, minute>>; an unparsable one becomes NaT
NaT == <<-1, -1>>
BadTime == <<-1, 0>>
ToDatetime(cell) == IF cell[1] >= 0 /\ cell[2] \in 0..59 THEN cell ELSE NaT

\* dt.floor("H"): the timestamp's hour
FloorHour(ts) == ts[1]

\* A number cell is a rational; a cell that is no number becomes NaN
NotANumber == <<0, -1>>
ToNumeric(cell) == IF cell[2] > 0 THEN cell ELSE NaN

NoError == [type |-> "none", frame |-> "", missing |-> {}]

\* The rows of _prepare_price_frame for the detected columns: the rows with a
\* timestamp, a zone and a price, averaged by (zone, hour), the groups in
\* order of their keys
PriceRows(frame, ts_col, loc_col, price_col) ==
    LET n == Len(frame.rows)
        parsed == [i \in 1..n |->
                    [timestamp |-> ToDatetime(frame.rows[i][ts_col]),
                     zone |-> normalize_location(frame.rows[i][loc_col]),
                     price |-> ToNumeric(frame.rows[i][price_col])]]
        kept == {i \in 1..n : /\ parsed[i].timestamp # NaT
                              /\ parsed[i].zone # None
                              /\ ~IsNaN(parsed[i].price)}
        keys == {<<parsed[i].zone, FloorHour(parsed[i].timestamp)>> : i \in kept}
        mean(k) ==
            LET group == SelectRows(parsed, {i \in kept :
                            parsed[i].zone = k[1] /\ FloorHour(parsed[i].timestamp) = k[2]})
            IN  RDiv(SumOf([j \in 1..Len(group) |-> group[j].price]), Num(Len(group)))
    IN  SetToTable({[zone |-> k[1], timestamp |-> k[2], price |-> mean(k)] : k \in keys})

\* A price frame that lacks a column is passed over: no rows and no error
prepare_price_frame_lenient(frame) ==
    LET ts_col == detect_column(frame, TIME_COLUMN_CANDIDATES)
        loc_col == detect_column(frame, LOCATION_COLUMN_CANDIDATES)
        price_col == detect_column(frame, PRICE_COLUMN_CANDIDATES)
    IN  IF NoColumn \in {ts_col, loc_col, price_col}
        THEN [error |-> NoError, df |-> <<>>]
        ELSE [error |-> NoError, df |-> PriceRows(frame, ts_col, loc_col, price_col)]

\* _prepare_price_frame(frame): the normalized rows, or the ValueError whose
\* message is the dict of the three roles and the columns detected for them
prepare_price_frame(frame) ==
    LET ts_col == detect_column(frame, TIME_COLUMN_CANDIDATES)
        loc_col == detect_column(frame, LOCATION_COLUMN_CANDIDATES)
        price_col == detect_column(frame, PRICE_COLUMN_CANDIDATES)
    IN  IF NoColumn \in {ts_col, loc_col, price_col}
        THEN [error |-> [type |-> "ValueError", frame |-> "price",
                         missing |-> { <<"timestamp", ts_col>>, <<"location", loc_col>>,
                                       <<"price", price_col>> }],
              df |-> <<>>]
        ELSE [error |-> NoError, df |-> PriceRows(frame, ts_col, loc_col, price_col)]

\* The rows of _prepare_load_frame for the detected columns: the rows with a
\* timestamp and a load, averaged by hour, the hours ascending
LoadRows(frame, ts_col, load_col) ==
    LET n == Len(frame.rows)
        parsed == [i \in 1..n |->
                    [timestamp |-> ToDatetime(frame.rows[i][ts_col]),
                     system_load |-> ToNumeric(frame.rows[i][load_col])]]
        kept == {i \in 1..n : parsed[i].timestamp # NaT /\ ~IsNaN(parsed[i].system_load)}
        hours == {FloorHour(parsed[i].timestamp) : i \in kept}
        mean(h) ==
            LET group == SelectRows(parsed, {i \in kept : FloorHour(parsed[i].timestamp) = h})
            IN  RDiv(SumOf([j \in 1..Len(group) |-> group[j].system_load]), Num(Len(group)))
    IN  [k \in 1..Cardinality(hours) |->
            LET h == CHOOSE h \in hours : Cardinality({g \in hours : g < h}) = k - 1
            IN  [timestamp |-> h, system_load |-> mean(h)]]

\* _prepare_load_frame(frame)
prepare_load_frame(frame) ==
    LET ts_col == detect_column(frame, TIME_COLUMN_CANDIDATES)
        load_col == detect_column(frame, LOAD_COLUMN_CANDIDATES)
    IN  IF NoColumn \in {ts_col, load_col}
        THEN [error |-> [type |-> "ValueError", frame |-> "load",
                         missing |-> { <<"timestamp", ts_col>>, <<"load", load_col>> }],
              df |-> <<>>]
        ELSE [error |-> NoError, df |-> LoadRows(frame, ts_col, load_col)]

\* pd.concat(frames, ignore_index=True) of frames of the same columns
RECURSIVE ConcatFrames(_)
ConcatFrames(frames) ==
    IF frames = <<>> THEN <<>> ELSE Head(frames) \o ConcatFrames(Tail(frames))

\* fetch_rtm_prices after its calls: the frames concatenated, the rows of
\* canonical zones, the first row of a (zone, timestamp), sorted
CombinePrices(frames) ==
    IF frames = <<>> THEN <<>>
    ELSE LET price_frame == ConcatFrames(frames)
             canonical == SelectSeq(price_frame, LAMBDA row : row.zone \in CANONICAL_LOCATIONS)
             first == {i \in 1..Len(canonical) :
                        \A j \in 1..(i - 1) : ~SameKey(canonical[i], canonical[j])}
         IN  SortValues(SelectRows(canonical, first))

\* fetch_system_load after its calls: the frames concatenated, the first row
\* of a timestamp, sorted
CombineLoads(frames) ==
    IF frames = <<>> THEN <<>>
    ELSE LET load_frame == ConcatFrames(frames)
             first == {i \in 1..Len(load_frame) :
                        \A j \in 1..(i - 1) : load_frame[j].timestamp # load_frame[i].timestamp}
         IN  SortByTimestamp(SelectRows(load_frame, first))

\* price_df.merge(load_df, on="timestamp", how="left"); load_df has one row a
\* timestamp
MergeLoad(price_df, load_df) ==
    [i \in 1..Len(price_df) |->
        LET match == {j \in 1..Len(load_df) : load_df[j].timestamp = price_df[i].timestamp}
        IN  [zone |-> price_df[i].zone, timestamp |-> price_df[i].timestamp,
             price |-> price_df[i].price,
             system_load |-> IF match = {} THEN NaN
                             ELSE load_df[CHOOSE j \in match : TRUE].system_load]]

\* dataset["system_load"].ffill(): down the column, in the table's order
Ffill(t) ==
    [i \in 1..Len(t) |->
        LET seen == {j \in 1..i : ~IsNaN(t[j].system_load)}
        IN  IF seen = {} THEN t[i]
            ELSE [t[i] EXCEPT !.system_load =
                    t[CHOOSE j \in seen : \A k \in seen : k <= j].system_load]]

\* fetch_dataset after both fetches
fetch_dataset(price_df, load_df) ==
    IF Empty(price_df) THEN <<>>
    ELSE Ffill(SortValues(MergeLoad(price_df, load_df)))

(***************************************************************************)
(* fetch_dataset as a process: what ERCOT returns, and the steps           *)
(***************************************************************************)

\* The dates of the per-day loop, from start.date() to end.date()
MaxDays == 2

\* A raw price frame of the given column names and samples
RawPriceFrame(names, samples) ==
    [columns |-> {names[1], names[2], names[3], "DSTFlag"},
     rows |-> [i \in 1..Len(samples) |->
                 (names[1] :> samples[i].ts @@ names[2] :> samples[i].loc
                    @@ names[3] :> samples[i].price @@ "DSTFlag" :> 0)]]

\* A raw load frame of the given column names and samples
RawLoadFrame(names, samples) ==
    [columns |-> {names[1], names[2], "DSTFlag"},
     rows |-> [i \in 1..Len(samples) |->
                 (names[1] :> samples[i].ts @@ names[2] :> samples[i].load
                    @@ "DSTFlag" :> 0)]]

\* Column names of price frames: with a candidate for every role, and with
\* none for the timestamp, the location, the price, or all three
PriceColumnNames ==
    { <<"Delivery Interval", "Settlement Point", "Settlement Point Price">>,
      <<"time", "location", "lmp">>,
      <<"Time", "location", "lmp">>,
      <<"time", "Zone", "price">>,
      <<"time", "Location", "LMP">>,
      <<"Date", "Zone", "LMP">> }

LoadColumnNames ==
    { <<"Interval Ending", "Actual System Load">>,
      <<"time", "Load">>,
      <<"time", "load">>,
      <<"Hour", "Load">>,
      <<"Hour", "MW">> }

\* Samples within an hour, of hubs and zones under several spellings, and
\* samples with an unparsable time, an unknown location or no number
PriceSamples ==
    { << [ts |-> <<1, 0>>, loc |-> LZ_ \o NORTH, price |-> Num(20)],
         [ts |-> <<1, 30>>, loc |-> StrLower(NORTH), price |-> Num(30)],
         [ts |-> <<2, 0>>, loc |-> HB_HOUSTON, price |-> Num(40)] >>,
      << [ts |-> <<2, 15>>, loc |-> NORTH, price |-> Num(50)],
         [ts |-> BadTime, loc |-> NORTH, price |-> Num(60)],
         [ts |-> <<2, 0>>, loc |-> UNKNOWN_ZONE, price |-> Num(70)],
         [ts |-> <<1, 0>>, loc |-> HOUSTON, price |-> Num(35)],
         [ts |-> <<3, 0>>, loc |-> HOUSTON, price |-> NotANumber] >>,
      << [ts |-> <<1, 45>>, loc |-> NORTH, price |-> Num(40)] >> }

LoadSamples ==
    { << [ts |-> <<1, 0>>, load |-> Num(100)],
         [ts |-> <<1, 30>>, load |-> Num(120)] >>,
      << [ts |-> <<2, 0>>, load |-> NotANumber],
         [ts |-> BadTime, load |-> Num(80)],
         [ts |-> <<1, 0>>, load |-> Num(90)] >> }

RawPriceFrames ==
    {RawPriceFrame(names, samples) : names \in PriceColumnNames, samples \in PriceSamples}
        \cup {[columns |-> {}, rows |-> <<>>]}

RawLoadFrames ==
    {RawLoadFrame(names, samples) : names \in LoadColumnNames, samples \in LoadSamples}

\* fetch_dataset before its first call
StartFetch ==
    fetcher = [pc |-> "price_range", day |-> 1, frames |-> <<>>, raws |-> <<>>,
               price_df |-> <<>>, load_df |-> <<>>, error |-> NoError, dataset |-> <<>>]

\* The exception leaves fetch_dataset: its frames and tables are lost
Raised(got, error) ==
    [pc |-> "failed", day |-> fetcher.day, frames |-> <<>>,
     raws |-> Append(fetcher.raws, got),
     price_df |-> <<>>, load_df |-> <<>>, error |-> error, dataset |-> <<>>]

\* A frame normalized and appended to frames
Appended(got, df, pc, day) ==
    [fetcher EXCEPT !.pc = pc, !.day = day, !.frames = Append(fetcher.frames, df),
                    !.raws = Append(fetcher.raws, got)]

\* fetch_rtm_prices: the call with start and end, which a gridstatus that
\* wants a date refuses with TypeError
PriceRange ==
    /\ fetcher.pc = "price_range"
    /\ \E supported \in BOOLEAN : \E frame \in RawPriceFrames :
         LET got == [kind |-> "price", frame |-> frame]
             prepared == prepare_price_frame(frame)
         IN  fetcher' =
                IF ~supported THEN [fetcher EXCEPT !.pc = "price_days", !.day = 1]
                ELSE IF prepared.error.type # "none" THEN Raised(got, prepared.error)
                ELSE Appended(got, prepared.df, "price_combine", fetcher.day)
    /\ UNCHANGED notFetch

\* fetch_rtm_prices: one round of the per-day loop
PriceDay ==
    /\ fetcher.pc = "price_days"
    /\ fetcher.day <= MaxDays
    /\ \E frame \in RawPriceFrames :
         LET got == [kind |-> "price", frame |-> frame]
             prepared == prepare_price_frame(frame)
         IN  fetcher' =
                IF prepared.error.type # "none" THEN Raised(got, prepared.error)
                ELSE Appended(got, prepared.df, "price_days", fetcher.day + 1)
    /\ UNCHANGED notFetch

\* fetch_rtm_prices: the frames combined and returned
PriceCombine ==
    /\ \/ fetcher.pc = "price_combine"
       \/ fetcher.pc = "price_days" /\ fetcher.day > MaxDays
    /\ fetcher' = [fetcher EXCEPT !.pc = "load_range", !.day = 1, !.frames = <<>>,
                                  !.price_df = CombinePrices(fetcher.frames)]
    /\ UNCHANGED notFetch

\* fetch_system_load: the call with start and end
LoadRange ==
    /\ fetcher.pc = "load_range"
    /\ \E supported \in BOOLEAN : \E frame \in RawLoadFrames :
         LET got == [kind |-> "load", frame |-> frame]
             prepared == prepare_load_frame(frame)
         IN  fetcher' =
                IF ~supported THEN [fetcher EXCEPT !.pc = "load_days", !.day = 1]
                ELSE IF prepared.error.type # "none" THEN Raised(got, prepared.error)
                ELSE Appended(got, prepared.df, "load_combine", fetcher.day)
    /\ UNCHANGED notFetch

\* fetch_system_load: one round of the per-day loop
LoadDay ==
    /\ fetcher.pc = "load_days"
    /\ fetcher.day <= MaxDays
    /\ \E frame \in RawLoadFrames :
         LET got == [kind |-> "load", frame |-> frame]
             prepared == prepare_load_frame(frame)
         IN  fetcher' =
                IF prepared.error.type # "none" THEN Raised(got, prepared.error)
                ELSE Appended(got, prepared.df, "load_days", fetcher.day + 1)
    /\ UNCHANGED notFetch

\* fetch_system_load: the frames combined and returned
LoadCombine ==
    /\ \/ fetcher.pc = "load_combine"
       \/ fetcher.pc = "load_days" /\ fetcher.day > MaxDays
    /\ fetcher' = [fetcher EXCEPT !.pc = "merge", !.day = 1, !.frames = <<>>,
                                  !.load_df = CombineLoads(fetcher.frames)]
    /\ UNCHANGED notFetch

\* fetch_dataset: prices and load merged and returned
FetchMerge ==
    /\ fetcher.pc = "merge"
    /\ fetcher' = [fetcher EXCEPT !.pc = "done",
                                  !.dataset = fetch_dataset(fetcher.price_df, fetcher.load_df)]
    /\ UNCHANGED notFetch

(***************************************************************************)
(* The specifications                                                      *)
(***************************************************************************)

InitNorm == StartNorm /\ IdleMerge /\ IdleSent /\ IdleSys /\ StartFetch
NextNorm == Normalize
SpecNorm == InitNorm /\ [][NextNorm]_vars

InitMerge == IdleNorm /\ StartMerge /\ IdleSent /\ IdleSys /\ StartFetch
NextMerge == MergeOnce \/ MergeTwice
SpecMerge == InitMerge /\ [][NextMerge]_vars

InitSent == IdleNorm /\ IdleMerge /\ StartSent /\ IdleSys /\ StartFetch
NextSent == ComputeSentiment
SpecSent == InitSent /\ [][NextSent]_vars

\* The API's requests on a persisted dataset
InitApi == IdleNorm /\ IdleMerge /\ IdleSent /\ StartApi /\ StartFetch
NextApi == ReadLatest \/ ReadHistory
SpecApi == InitApi /\ [][NextApi]_vars

\* The collector's runs of collect_and_update, one after the other
Init == IdleNorm /\ IdleMerge /\ IdleSent /\ StartSys /\ StartFetch
NextCollect ==
    \/ CollectFetch
    \/ CollectNothing
    \/ CollectLoad
    \/ CollectMerge
    \/ CollectEnrich
    \/ SaveOpen
    \/ SaveWrite
    \/ SaveClose
SpecCollect == Init /\ [][NextCollect]_vars

\* The collector's runs and the API's requests, interleaved
Next ==
    \/ CollectFetch
    \/ CollectNothing
    \/ CollectLoad
    \/ CollectMerge
    \/ CollectEnrich
    \/ SaveOpen
    \/ SaveWrite
    \/ SaveClose
    \/ ReadLatest
    \/ ReadHistory
Spec == Init /\ [][Next]_vars

\* One run of fetch_dataset on what ERCOT returns
InitFetch == IdleNorm /\ IdleMerge /\ IdleSent /\ IdleSys /\ StartFetch
NextFetch ==
    \/ PriceRange
    \/ PriceDay
    \/ PriceCombine
    \/ LoadRange
    \/ LoadDay
    \/ LoadCombine
    \/ FetchMerge
SpecFetch == InitFetch /\ [][NextFetch]_vars

(***************************************************************************)
(* C1                                                                      *)
(***************************************************************************)

\* The canonical identifier a known name stands for, from the two tables
CanonicalOf(x) == IF x \in CANONICAL_LOCATIONS THEN x ELSE AliasValue(x)

\* C1: normalize_location returns the correct canonical identifier for every
\* canonical identifier, for every key of the alias table as written, and for
\* every known prefix followed by a canonical identifier or alias key; it
\* returns None for an unrelated string.  "North Hub" gives HB_NORTH,
\* "LZ_SOUTH" gives SOUTH and "unknown zone" gives None.
NormalizeTotality ==
    normPc = "done" =>
        /\ raw \in KnownNames => zoneOut = CanonicalOf(raw)
        /\ \A i \in 1..Len(PREFIXES) : \A x \in KnownNames :
              (raw = PREFIXES[i] \o x /\ raw \notin KnownNames) => zoneOut = CanonicalOf(x)
        /\ raw \in UnrelatedStrings => zoneOut = None
        /\ raw = StrTitle(NORTH \o SP_HUB) => zoneOut = HB_NORTH
        /\ raw = LZ_ \o SOUTH => zoneOut = SOUTH
        /\ raw = UNKNOWN_ZONE => zoneOut = None


(***************************************************************************)
(* C2, C3                                                                  *)
(***************************************************************************)

HasKey(t, k) == \E i \in 1..Len(t) : t[i].zone = k[1] /\ t[i].timestamp = k[2]
RowsOfKey(t, k) == {i \in 1..Len(t) : t[i].zone = k[1] /\ t[i].timestamp = k[2]}
LastOfKey(t, k) == t[CHOOSE i \in RowsOfKey(t, k) : \A j \in RowsOfKey(t, k) : j <= i]

\* C2: append_and_dedupe is idempotent in its batch: merging the batch into
\* the merged table again gives the same rows in the same order.
MergeIdempotent == mergePc = "twice" => again = combined

\* A non-empty table merged twice with a batch that repeats a key of the table
MergeIdempotentWitness ==
    /\ mergePc = "twice"
    /\ ~Empty(existing)
    /\ \E i, j \in 1..Len(new_rows) :
         /\ i < j
         /\ SameKey(new_rows[i], new_rows[j])
         /\ new_rows[i] # new_rows[j]
         /\ \E r \in 1..Len(existing) :
              SameKey(existing[r], new_rows[j]) /\ existing[r] # new_rows[j]

\* C3: newest wins: a key of the batch has exactly one row in the merged
\* table, the last row the batch has for it; a key of the table alone keeps
\* the table's row; the merged table has no other key.
MergeNewestWins ==
    mergePc # "ready" /\ mergePc # "idle" =>
        /\ \A k \in MergeKeys :
             IF HasKey(new_rows, k)
             THEN /\ Cardinality(RowsOfKey(combined, k)) = 1
                  /\ LastOfKey(combined, k) = LastOfKey(new_rows, k)
             ELSE IF HasKey(existing, k)
             THEN /\ Cardinality(RowsOfKey(combined, k)) = 1
                  /\ LastOfKey(combined, k) = LastOfKey(existing, k)
             ELSE ~HasKey(combined, k)

\* The table has a row for a key, the batch has two rows for it with other
\* values, and the table has a key the batch has not
MergeNewestWinsWitness ==
    /\ mergePc = "once"
    /\ \E k \in MergeKeys :
         /\ HasKey(existing, k)
         /\ Cardinality(RowsOfKey(new_rows, k)) >= 2
         /\ LastOfKey(new_rows, k) # LastOfKey(existing, k)
         /\ new_rows[CHOOSE i \in RowsOfKey(new_rows, k) : TRUE] # LastOfKey(new_rows, k)
    /\ \E k \in MergeKeys : HasKey(existing, k) /\ ~HasKey(new_rows, k)

(***************************************************************************)
(* C5, C6                                                                  *)
(***************************************************************************)

\* C5: every row compute_sentiment returns has a defined sentiment in
\* [0, 100], whatever the weights and also when its price or load is missing,
\* and its bucket is green iff sentiment >= 70, yellow iff 40 <= sentiment < 70
\* and red otherwise.
SentimentBounds ==
    sentPc = "done" /\ sentOut.error = "none" =>
        \A i \in 1..Len(sentOut.df) :
            LET s == sentOut.df[i].sentiment
                b == sentOut.df[i].sentiment_bucket
            IN  /\ IsFinite(s)
                /\ 0 <= s[1] /\ s[1] <= 100 * s[2]
                /\ b \in {"green", "yellow", "red"}
                /\ b = "green" <=> s[1] >= 70 * s[2]
                /\ b = "yellow" <=> (s[1] >= 40 * s[2] /\ s[1] < 70 * s[2])

\* Scored with a negative weight: a row without a price, a green row and a
\* red row
SentimentBoundsWitness ==
    /\ sentPc = "done"
    /\ sentOut.error = "none"
    /\ sentWeights # <<>>
    /\ RLess(sentWeights[1].load, Num(0))
    /\ \E i, j, k \in 1..Len(sentOut.df) :
         /\ IsNaN(sentOut.df[i].price)
         /\ sentOut.df[j].sentiment_bucket = "green"
         /\ sentOut.df[k].sentiment_bucket = "red"

\* C6: a row whose trailing-window MAD of price is zero or undefined has a
\* robust z-score of 0 and a price_score of exactly 50, whatever its price;
\* after thirty prices of 20 and one of 30, with window_hours = min_periods =
\* 24, the last row has price_baseline 20, MAD 0 and price_score 50.
DegenerateDispersion ==
    sentPc = "done" /\ sentOut.error = "none" =>
        /\ \A i \in 1..Len(sentOut.df) :
             LET row == sentOut.df[i]
                 zoneRows == SelectSeq(sentDf, LAMBDA r : r.zone = row.zone /\ r.timestamp <= row.timestamp)
                 lo == IF Len(zoneRows) > sentWindow THEN Len(zoneRows) - sentWindow + 1 ELSE 1
                 window == [k \in 1..(Len(zoneRows) - lo + 1) |-> zoneRows[lo + k - 1].price]
                 flat == \A k \in 1..Len(window) : window[k] = window[1]
             IN  /\ (row.price_mad = Num(0) \/ IsNaN(row.price_mad)) =>
                        row.price_z = Num(0) /\ row.price_score = Num(50)
                 \* a full window of one price has MAD 0
                 /\ (flat /\ Len(window) >= sentMinPeriods /\ ~IsNaN(window[1])) =>
                        row.price_mad = Num(0)
                 \* too few observations: the MAD is undefined
                 /\ Len(Observed(window)) < sentMinPeriods => IsNaN(row.price_mad)
        /\ sentDf = ScenarioC =>
             LET last == sentOut.df[31]
             IN  /\ last.price = Num(30)
                 /\ last.price_baseline = Num(20)
                 /\ last.price_mad = Num(0)
                 /\ last.price_score = Num(50)

\* A row whose price is off its baseline while the window's MAD is 0
DegenerateDispersionWitness ==
    /\ sentPc = "done"
    /\ sentOut.error = "none"
    /\ sentDf # ScenarioC
    /\ \E i \in 1..Len(sentOut.df) :
         /\ sentOut.df[i].price_mad = Num(0)
         /\ IsFinite(sentOut.df[i].price_baseline)
         /\ sentOut.df[i].price # sentOut.df[i].price_baseline
         /\ sentOut.df[i].price_score = Num(50)

(***************************************************************************)
(* C4                                                                      *)
(***************************************************************************)

StrictlyAscending(t) == \A i \in 1..(Len(t) - 1) : RowLess(t[i], t[i + 1])

\* C4: the table append_and_dedupe returns, and so the table persisted after
\* any sequence of collect_and_update runs, is strictly ascending in
\* (zone, timestamp): sorted, and no two rows of one key.
PersistedAscending ==
    /\ collector.pc \in {"merged", "enriched", "opened", "written"} =>
            StrictlyAscending(collector.combined)
    /\ file.state = "complete" => StrictlyAscending(file.rows)
    /\ StrictlyAscending(persisted)
    /\ StrictlyAscending(collector.returned)

\* A run has merged, into a persisted table of two zones, a batch that has
\* rows of keys the table has and starts with a row that sorts before the
\* table's last: the concatenation repeats keys and is out of order
PersistedAscendingWitness ==
    /\ collector.pc = "merged"
    /\ file.state = "complete"
    /\ \E i, j \in 1..Len(collector.existing) :
            collector.existing[i].zone # collector.existing[j].zone
    /\ \E i \in 1..Len(collector.existing) : \E j \in 1..Len(collector.fresh) :
            SameKey(collector.existing[i], collector.fresh[j])
    /\ RowLess(collector.fresh[1], collector.existing[Len(collector.existing)])
    /\ Len(collector.combined) > Len(collector.existing)

(***************************************************************************)
(* C7, C8                                                                  *)
(***************************************************************************)

\* The persisted rows of a zone, as the API returns them
ZoneRows(zone) == {MarketRow(file.rows[i]) : i \in {k \in 1..Len(file.rows) : file.rows[k].zone = zone}}
NewestOf(rows) == CHOOSE r \in rows : \A q \in rows : q.timestamp <= r.timestamp

\* C7: history(zone, hours) returns, by ascending timestamp, exactly the
\* persisted rows of the canonicalized zone whose timestamp is at least the
\* zone's greatest timestamp minus (hours - 1), and no row of another zone; on
\* NORTH's 48 consecutive hours, history(NORTH, 24) is the 24 most recent rows.
HistoryWindow ==
    reader.op = "history" /\ reader.response.status = 200 =>
        LET canonical == normalize_location(reader.zone)
            rows == reader.response.rows
            recent == {r \in ZoneRows(canonical) :
                        r.timestamp >= NewestOf(ZoneRows(canonical)).timestamp - (reader.hours - 1)}
        IN  /\ {rows[i] : i \in 1..Len(rows)} = recent
            /\ Len(rows) = Cardinality(recent)
            /\ \A i \in 1..(Len(rows) - 1) : rows[i].timestamp < rows[i + 1].timestamp
            /\ \A i \in 1..Len(rows) : rows[i].zone = canonical
            /\ (Cardinality(ZoneRows(NORTH)) = 48 /\ canonical = NORTH /\ reader.hours = 24) =>
                    /\ Len(rows) = 24
                    /\ \A i \in 1..24 : rows[i].timestamp = 24 + i

\* history under an alias spelling with hours = 24 that returns 24 rows and
\* leaves out older rows of the zone, on a table that has rows of another
\* zone inside the window
HistoryWindowWitness ==
    /\ reader.op = "history"
    /\ reader.response.status = 200
    /\ reader.zone # normalize_location(reader.zone)
    /\ reader.hours = 24
    /\ Len(reader.response.rows) = 24
    /\ Cardinality(ZoneRows(normalize_location(reader.zone))) > Len(reader.response.rows)
    /\ \E i \in 1..Len(file.rows) :
         /\ file.rows[i].zone # normalize_location(reader.zone)
         /\ file.rows[i].timestamp >= reader.response.rows[1].timestamp

\* C8: latest(zone) returns the row of the greatest timestamp among the
\* persisted rows of the canonicalized zone; latest and history fail with not
\* found (404), and return no row, exactly when the zone string does not
\* canonicalize or the canonical zone has no persisted rows, a missing or
\* empty dataset included.
LatestOrNotFound ==
    reader.op # "idle" =>
        LET canonical == normalize_location(reader.zone)
            notFound == canonical = None \/ ZoneRows(canonical) = {}
        IN  /\ reader.response.status = 404 <=> notFound
            /\ notFound => reader.response.rows = <<>>
            /\ ~notFound => reader.response.status = 200
            /\ (reader.op = "latest" /\ ~notFound) =>
                    reader.response.rows = <<NewestOf(ZoneRows(canonical))>>

\* latest under an alias spelling, on a zone of several rows, while another
\* zone has a later row
LatestOrNotFoundWitness ==
    /\ reader.op = "latest"
    /\ reader.response.status = 200
    /\ reader.zone \notin CANONICAL_LOCATIONS
    /\ Cardinality(ZoneRows(normalize_location(reader.zone))) >= 2
    /\ \E i \in 1..Len(file.rows) :
         file.rows[i].timestamp > reader.response.rows[1].timestamp

(***************************************************************************)
(* C9                                                                      *)
(***************************************************************************)

\* The roles a raw frame of a kind needs, each with its candidates
RoleCandidates(kind) ==
    IF kind = "price"
    THEN { <<"timestamp", TIME_COLUMN_CANDIDATES>>, <<"location", LOCATION_COLUMN_CANDIDATES>>,
           <<"price", PRICE_COLUMN_CANDIDATES>> }
    ELSE { <<"timestamp", TIME_COLUMN_CANDIDATES>>, <<"load", LOAD_COLUMN_CANDIDATES>> }

\* The roles for which a raw frame has no candidate column
LackingRoles(got) ==
    {rc[1] : rc \in {rc \in RoleCandidates(got.kind) :
                        \A i \in 1..Len(rc[2]) : rc[2][i] \notin got.frame.columns}}

\* C9: when a raw price or load frame of a fetch has no candidate column for
\* one of its roles, the fetch has failed on that frame with a ValueError
\* whose message gives None for exactly the roles without a candidate column
\* and a column of the frame for the others, and the fetch holds no frames,
\* no tables and no dataset, the frames normalized before included; when
\* every frame has a candidate column for every role, there is no error.
SchemaAllOrNothing ==
    LET raws == fetcher.raws
        bad == {i \in 1..Len(raws) : LackingRoles(raws[i]) # {}}
    IN  /\ bad # {} =>
              /\ bad = {Len(raws)}
              /\ fetcher.pc = "failed"
              /\ fetcher.error.type = "ValueError"
              /\ fetcher.error.frame = raws[Len(raws)].kind
              /\ {m[1] : m \in {m \in fetcher.error.missing : m[2] = NoColumn}}
                    = LackingRoles(raws[Len(raws)])
              /\ {m[1] : m \in fetcher.error.missing}
                    = {rc[1] : rc \in RoleCandidates(raws[Len(raws)].kind)}
              /\ \A m \in fetcher.error.missing :
                    m[2] # NoColumn => m[2] \in raws[Len(raws)].frame.columns
              /\ fetcher.frames = <<>>
              /\ fetcher.price_df = <<>>
              /\ fetcher.load_df = <<>>
              /\ fetcher.dataset = <<>>
        /\ bad = {} => fetcher.pc # "failed" /\ fetcher.error.type = "none"

\* The second frame of the per-day loop lacks only a price column, after a
\* first frame that was normalized to rows
SchemaAllOrNothingWitness ==
    /\ fetcher.pc = "failed"
    /\ Len(fetcher.raws) = 2
    /\ fetcher.day = 2
    /\ fetcher.raws[2].kind = "price"
    /\ LackingRoles(fetcher.raws[2]) = {"price"}
    /\ prepare_price_frame(fetcher.raws[1].frame).df # <<>>
    /\ fetcher.frames = <<>>

(***************************************************************************)
(* C11                                                                     *)
(***************************************************************************)

\* The hours of the rows of a zone in the price table, up to hour t, that
\* have a load observation
LoadedHours(zone, t) ==
    {fetcher.price_df[k].timestamp : k \in {k \in 1..Len(fetcher.price_df) :
        /\ fetcher.price_df[k].zone = zone
        /\ fetcher.price_df[k].timestamp <= t
        /\ \E j \in 1..Len(fetcher.load_df) :
              fetcher.load_df[j].timestamp = fetcher.price_df[k].timestamp}}

\* The load observed at hour t
LoadAt(t) ==
    fetcher.load_df[CHOOSE j \in 1..Len(fetcher.load_df) :
                        fetcher.load_df[j].timestamp = t].system_load

\* C11: in the dataset fetch_dataset returns, a row has the load observed at
\* the latest hour, up to its own, at which its zone has a row and a load was
\* observed, and an undefined load when its zone has no such hour: no load
\* comes from a row of another zone or of a later hour.
FfillWithinZone ==
    fetcher.pc = "done" =>
        \A i \in 1..Len(fetcher.dataset) :
            LET row == fetcher.dataset[i]
                hours == LoadedHours(row.zone, row.timestamp)
            IN  row.system_load =
                    IF hours = {} THEN NaN
                    ELSE LoadAt(CHOOSE h \in hours : \A g \in hours : g <= h)

(***************************************************************************)
(* C12                                                                     *)
(***************************************************************************)

\* C12: compute_sentiment raises nothing, whatever the order of window_hours
\* and min_periods, and returns one enriched row for every row of its table.
SentimentTotal ==
    sentPc = "done" =>
        /\ sentOut.error = "none"
        /\ Len(sentOut.df) = Len(sentDf)

(***************************************************************************)
(* C13                                                                     *)
(***************************************************************************)

\* The valid samples of the raw price frames of the fetch, as <<frame, row,
\* zone, hour, price>>: a parsable time, a recognized location, a number
ValidSamples ==
    LET cell(f, i, candidates) ==
            fetcher.raws[f].frame.rows[i][detect_column(fetcher.raws[f].frame, candidates)]
    IN  {<<p[1], p[2], normalize_location(cell(p[1], p[2], LOCATION_COLUMN_CANDIDATES)),
           cell(p[1], p[2], TIME_COLUMN_CANDIDATES)[1],
           cell(p[1], p[2], PRICE_COLUMN_CANDIDATES)>> :
            p \in {p \in UNION {{f} \X (1..Len(fetcher.raws[f].frame.rows)) :
                                    f \in 1..Len(fetcher.raws)} :
                     /\ cell(p[1], p[2], TIME_COLUMN_CANDIDATES)[1] >= 0
                     /\ normalize_location(cell(p[1], p[2], LOCATION_COLUMN_CANDIDATES))
                            \in CANONICAL_LOCATIONS
                     /\ cell(p[1], p[2], PRICE_COLUMN_CANDIDATES)[2] > 0}}

\* The arithmetic mean of the prices of a non-empty set of samples
MeanPrice(samples) ==
    LET n == Cardinality(samples)
        before(a, b) == a[1] < b[1] \/ (a[1] = b[1] /\ a[2] < b[2])
        ordered == [k \in 1..n |->
                      CHOOSE a \in samples :
                          Cardinality({b \in samples : before(b, a)}) = k - 1]
    IN  RDiv(SumOf([k \in 1..n |-> ordered[k][5]]), Num(n))

\* C13: the price table fetch_rtm_prices returns has one row for every (zone,
\* hour) of a valid raw sample of the fetch and no other row, the row's price
\* is the mean of all the valid samples of that zone and hour, whatever the
\* frame they came in, and its zone is a canonical identifier.
PriceBatchMeans ==
    fetcher.pc = "load_range" =>
        LET keys == {<<v[3], v[4]>> : v \in ValidSamples}
            table == fetcher.price_df
        IN  /\ Len(table) = Cardinality(keys)
            /\ \A i \in 1..Len(table) :
                  /\ <<table[i].zone, table[i].timestamp>> \in keys
                  /\ table[i].zone \in CANONICAL_LOCATIONS
                  /\ table[i].price =
                        MeanPrice({v \in ValidSamples :
                            v[3] = table[i].zone /\ v[4] = table[i].timestamp})

(***************************************************************************)
(* C14                                                                     *)
(***************************************************************************)

\* C14: the step of collect_and_update that follows a fetch of no rows
\* changes neither the file nor the persisted table, ends the run with no
\* table merged and none enriched, and returns the persisted table.
EmptyFetchFrame ==
    [][(collector.pc = "fetched" /\ Empty(collector.fresh)) =>
            /\ file' = file
            /\ persisted' = persisted
            /\ collector'.pc = "idle"
            /\ collector'.combined = <<>>
            /\ collector'.enriched = <<>>
            /\ collector'.returned = persisted]_vars

\* A run on a persisted table of several rows has ended on a fetch of no rows
EmptyFetchFrameWitness ==
    /\ collector.pc = "idle"
    /\ Empty(collector.fresh)
    /\ Len(persisted) >= 2
    /\ file = [state |-> "complete", rows |-> persisted]
    /\ collector.returned = persisted
    /\ collector.combined = <<>>

(***************************************************************************)
(* C10                                                                     *)
(***************************************************************************)

\* C10: saving is atomic for readers: whatever the interleaving of a
\* collect_and_update run with latest and history, a read observes the whole
\* table of before the save or the whole table of after it, never a missing,
\* empty or partly written one.
AtomicSave ==
    reader.op # "idle" =>
        /\ reader.loaded.error = "none"
        /\ reader.loaded.df \in {reader.before, reader.after}

====
